---------------------------- MODULE Spec2Model ----------------------------
(***************************************************************************)
(* A model of git-clone-select (bin/git-clone.js): the command line entry  *)
(* point main(), the configuration store, the path validator, the folder   *)
(* selection prompts, the clone executor and the post-clone prompt.        *)
(*                                                                         *)
(* Strings are TLA+ strings; a path is the string Node's path module sees  *)
(* on a POSIX platform (path.sep = "/").  An optional value (null,         *)
(* undefined, false, an unset environment variable, an absent file) is the *)
(* empty tuple << >>, a present value v is the one-element tuple <<v>>.    *)
(***************************************************************************)
EXTENDS Integers, Sequences, FiniteSets, TLC

VARIABLES
    \* ---- the machine the tool runs on
    cfgFile,        \* ~/.config/git-clone/config.json: <<>> or <<content>>
    dirs,           \* the directories that exist (absolute, normalised)
    files,          \* the directories that hold a non-directory entry
    \* ---- one invocation of the tool
    pc,             \* position of main()
    argv,           \* process.argv.slice(2)
    env,            \* process.env.GIT_CLONE_PROJECTS_DIR
    PROJECTS_DIR,   \* main: let PROJECTS_DIR
    existingFolders,\* main: const existingFolders
    defaultRepoName,\* main: const defaultRepoName
    action,         \* main: answer of the 'Choose an option' list
    parentLocation, \* main: answer of the parent location list
    parentPick,     \* which choice of that list was picked (observation)
    folderName,     \* main: answer of the folder name prompt, as typed
    targetFolder,   \* main: let targetFolder
    isExistingFolder,\* main: let isExistingFolder
    targetDir,      \* main: let targetDir
    clonedPath,     \* main: const clonedPath
    pending,        \* setConfig/setupConfig: the resolved directory being set
    exitCode,       \* <<>> while running, <<code>> once the process has ended
    \* ---- what the invocation did (observations)
    prompts,        \* the prompts shown, in order
    log,            \* the messages printed
    made,           \* directories created by the tool (fs.mkdirSync)
    gitCalls,       \* every spawnSync('git', ['clone', url, targetDir]) and its result
    keys,           \* the keys pressed at the post-clone prompt, in order
    editorCalls,    \* every spawnSync of an editor command and its result
    ovNeeded,       \* checks that found the target existing and non-empty
    ovYes,          \* overwrite confirmations answered yes
    cfgAtStart,     \* cfgFile when the invocation started
    runs,           \* invocations started so far
    afterReset,     \* the previous invocation was --reset-config and exited 0
    external,       \* directories created meanwhile by another process
    \* ---- the path validator applied to arbitrary inputs
    vPc, vTarget, vRoot, vResult,
    \* ---- extractRepoName applied to arbitrary URLs
    xPc, xPrefix, xName, xResult

vars == <<afterReset, cfgFile, dirs, files, pc, argv, env, PROJECTS_DIR, existingFolders,
          defaultRepoName, action, parentLocation, parentPick, folderName, targetFolder,
          isExistingFolder, targetDir, clonedPath, pending, exitCode, prompts,
          log, made, gitCalls, ovNeeded, ovYes, cfgAtStart, runs, external,
          vPc, vTarget, vRoot, vResult, keys, editorCalls, xPc, xPrefix, xName, xResult>>

machineVars == <<cfgFile, dirs, files>>
runVars == <<pc, argv, env, PROJECTS_DIR, existingFolders, defaultRepoName,
             action, parentLocation, parentPick, folderName, targetFolder, isExistingFolder,
             targetDir, clonedPath, pending, exitCode, prompts, log, made,
             gitCalls, keys, editorCalls, ovNeeded, ovYes, cfgAtStart, runs, afterReset,
             external>>
validatorVars == <<vPc, vTarget, vRoot, vResult>>
extractVars == <<xPc, xPrefix, xName, xResult>>

-----------------------------------------------------------------------------
(* Bounds of the model *)

MaxRuns == 1        \* consecutive invocations of the tool
MaxConfigRuns == 3  \* consecutive invocations of the configuration commands
MaxExternal == 1    \* directories another process creates during a run
MaxKeys == 2        \* keys pressed at the post-clone prompt
MaxPathLen == 5     \* length of the target strings given to the validator
MaxNameLen == 5     \* length of the repository names given to extractRepoName
MaxRootLen == 3     \* length of the root strings given to the validator

-----------------------------------------------------------------------------
(* Strings *)

None == << >>
Some(v) == <<v>>
IsSome(o) == o # << >>
Val(o) == o[1]

Char(s, i) == SubSeq(s, i, i)

StartsWith(s, p) == Len(p) <= Len(s) /\ SubSeq(s, 1, Len(p)) = p

EndsWith(s, p) == Len(p) <= Len(s) /\ SubSeq(s, Len(s) - Len(p) + 1, Len(s)) = p

Includes(s, p) == \E i \in 1..(Len(s) - Len(p) + 1) : SubSeq(s, i, i + Len(p) - 1) = p

\* String.prototype.trim, for the white space the inputs can hold (blanks)
RECURSIVE TrimLeft(_)
TrimLeft(s) == IF Len(s) > 0 /\ Char(s, 1) = " " THEN TrimLeft(SubSeq(s, 2, Len(s))) ELSE s

RECURSIVE TrimRight(_)
TrimRight(s) == IF Len(s) > 0 /\ Char(s, Len(s)) = " " THEN TrimRight(SubSeq(s, 1, Len(s) - 1)) ELSE s

Trim(s) == TrimRight(TrimLeft(s))

\* index of the first "/" of s, 0 when there is none
FirstSlash(s) ==
    IF \E i \in 1..Len(s) : Char(s, i) = "/"
    THEN CHOOSE i \in 1..Len(s) : Char(s, i) = "/" /\ \A j \in 1..(i - 1) : Char(s, j) # "/"
    ELSE 0

\* index of the last "/" of s, 0 when there is none
LastSlash(s) ==
    IF \E i \in 1..Len(s) : Char(s, i) = "/"
    THEN CHOOSE i \in 1..Len(s) : Char(s, i) = "/" /\ \A j \in (i + 1)..Len(s) : Char(s, j) # "/"
    ELSE 0

\* s.split('/')
RECURSIVE Segments(_)
Segments(s) ==
    LET i == FirstSlash(s) IN
    IF i = 0 THEN <<s>>
    ELSE <<SubSeq(s, 1, i - 1)>> \o Segments(SubSeq(s, i + 1, Len(s)))

\* segs.join('/')
RECURSIVE JoinSegs(_)
JoinSegs(segs) ==
    IF Len(segs) = 0 THEN ""
    ELSE IF Len(segs) = 1 THEN segs[1]
    ELSE segs[1] \o "/" \o JoinSegs(Tail(segs))

-----------------------------------------------------------------------------
(* Node's path module (posix) *)

Cwd == "/h"         \* process.cwd()
Home == "/h"        \* os.homedir()

\* path.js normalizeString: drops "" and ".", resolves ".." against the
\* segments kept so far; above the start ".." is kept only if allowAboveRoot
RECURSIVE NormalizeSegs(_, _, _)
NormalizeSegs(segs, acc, allowAboveRoot) ==
    IF Len(segs) = 0 THEN acc
    ELSE LET h == Head(segs)
             t == Tail(segs)
         IN  IF h = "" \/ h = "." THEN NormalizeSegs(t, acc, allowAboveRoot)
             ELSE IF h = ".."
                  THEN IF Len(acc) > 0 /\ acc[Len(acc)] # ".."
                       THEN NormalizeSegs(t, SubSeq(acc, 1, Len(acc) - 1), allowAboveRoot)
                       ELSE IF allowAboveRoot
                            THEN NormalizeSegs(t, Append(acc, ".."), allowAboveRoot)
                            ELSE NormalizeSegs(t, acc, allowAboveRoot)
                  ELSE NormalizeSegs(t, Append(acc, h), allowAboveRoot)

IsAbsolute(p) == Len(p) > 0 /\ Char(p, 1) = "/"

\* path.normalize(p)
PathNormalize(p) ==
    IF Len(p) = 0 THEN "."
    ELSE LET abs == IsAbsolute(p)
             trailing == Char(p, Len(p)) = "/"
             body == JoinSegs(NormalizeSegs(Segments(p), << >>, ~abs))
         IN  IF Len(body) = 0
             THEN IF abs THEN "/" ELSE IF trailing THEN "./" ELSE "."
             ELSE (IF abs THEN "/" ELSE "") \o body \o (IF trailing THEN "/" ELSE "")

\* path.join(...parts): the non-empty parts joined by "/", then normalised
PathJoin(parts) ==
    LET kept == SelectSeq(parts, LAMBDA x : Len(x) > 0) IN
    IF Len(kept) = 0 THEN "." ELSE PathNormalize(JoinSegs(kept))

\* path.resolve(p): absolute and normalised, against process.cwd()
PathResolve(p) ==
    LET full == IF IsAbsolute(p) THEN p ELSE Cwd \o "/" \o p
    IN  "/" \o JoinSegs(NormalizeSegs(Segments(full), << >>, FALSE))

\* path.dirname(p)
PathDirname(p) ==
    LET q == IF Len(p) > 1 /\ Char(p, Len(p)) = "/" THEN SubSeq(p, 1, Len(p) - 1) ELSE p
        i == LastSlash(q)
    IN  IF i = 0 THEN "."
        ELSE IF i = 1 THEN "/"
        ELSE SubSeq(q, 1, i - 1)

-----------------------------------------------------------------------------
(* The path validator *)

\* the validator with the operands of startsWith swapped
validatePathSwapped(targetPath, projectsDir) ==
    LET resolved == PathResolve(targetPath)
        projectsResolved == PathResolve(projectsDir)
    IN  IF ~StartsWith(projectsResolved \o "/", resolved \o "/") /\ resolved # projectsResolved
        THEN None
        ELSE Some(resolved)

\* validatePathWithinProjectsDir(targetPath, projectsDir): the resolved
\* path, or false (None)
validatePathWithinProjectsDir(targetPath, projectsDir) ==
    LET resolved == PathResolve(targetPath)
        projectsResolved == PathResolve(projectsDir)
        normalizedTarget == resolved \o "/"
        normalizedProjects == projectsResolved \o "/"
    IN  IF ~StartsWith(normalizedTarget, normalizedProjects) /\ resolved # projectsResolved
        THEN None
        ELSE Some(resolved)


-----------------------------------------------------------------------------
(* The file system *)

\* the directory p and every directory above it (p absolute and normalised)
RECURSIVE Ancestors(_)
Ancestors(p) == IF p = "/" THEN {"/"} ELSE {p} \cup Ancestors(PathDirname(p))

\* fs.existsSync(p)
Exists(p) == PathResolve(p) \in dirs

\* fs.readdirSync(p).length > 0
NonEmpty(p) ==
    LET r == PathResolve(p) IN
    r \in files \/ \E d \in dirs : d # r /\ PathDirname(d) = r

\* path.basename(p) of an absolute normalised path
PathBasename(p) == SubSeq(p, LastSlash(p) + 1, Len(p))

\* the order of Array.prototype.sort on strings: by UTF-16 code unit
CodeUnits == " -./0123456789:@ABCDEFGHIJKLMNOPQRSTUVWXYZ_abcdefghijklmnopqrstuvwxyz"

CodeOf(c) == CHOOSE i \in 1..Len(CodeUnits) : Char(CodeUnits, i) = c

RECURSIVE StrLess(_, _)
StrLess(a, b) ==
    IF Len(b) = 0 THEN FALSE
    ELSE IF Len(a) = 0 THEN TRUE
    ELSE IF Char(a, 1) = Char(b, 1) THEN StrLess(SubSeq(a, 2, Len(a)), SubSeq(b, 2, Len(b)))
    ELSE CodeOf(Char(a, 1)) < CodeOf(Char(b, 1))

RECURSIVE SortStrings(_)
SortStrings(S) ==
    IF S = {} THEN << >>
    ELSE LET m == CHOOSE x \in S : \A y \in S \ {x} : StrLess(x, y)
         IN  <<m>> \o SortStrings(S \ {m})

Range(f) == {f[i] : i \in DOMAIN f}

\* the listing without the filter on names that start with "."
getAllFolders(projectsDir) ==
    LET r == PathResolve(projectsDir)
    IN  SortStrings({PathBasename(d) : d \in {x \in dirs : x # r /\ PathDirname(x) = r}})

\* getExistingFolders(projectsDir), the listing of an existing directory: the
\* names of its immediate subdirectories that do not start with ".", sorted
getExistingFolders(projectsDir) ==
    LET r == PathResolve(projectsDir)
        names == {PathBasename(d) : d \in {x \in dirs : x # r /\ PathDirname(x) = r}}
    IN  SortStrings({n \in names : ~StartsWith(n, ".")})

-----------------------------------------------------------------------------
(* URLs *)

WordChars == "0123456789ABCDEFGHIJKLMNOPQRSTUVWXYZ_abcdefghijklmnopqrstuvwxyz"

\* the character class [\w\-\.]
IsNameChar(c) == c = "-" \/ c = "." \/ \E i \in 1..Len(WordChars) : Char(WordChars, i) = c

\* /^https?:\/\/<host>\/[\w\-\.]+\/[\w\-\.]+/ for host github.com, gitlab.com, bitbucket.org
HostedPattern(url, host) ==
    \E scheme \in {"http://", "https://"} :
        LET prefix == scheme \o host \o "/"
            rest == SubSeq(url, Len(prefix) + 1, Len(url))
        IN  /\ StartsWith(url, prefix)
            /\ \E k \in 1..Len(rest) :
                  /\ \A j \in 1..k : IsNameChar(Char(rest, j))
                  /\ k + 2 <= Len(rest)
                  /\ Char(rest, k + 1) = "/"
                  /\ IsNameChar(Char(rest, k + 2))

\* validateGitUrl(url)
validateGitUrl(url) ==
    \/ \E scheme \in {"http://", "https://"} :
          StartsWith(url, scheme) /\ EndsWith(url, ".git") /\ Len(url) >= Len(scheme) + 4
    \/ /\ StartsWith(url, "git@")
       /\ EndsWith(url, ".git")
       /\ \E i \in 5..(Len(url) - 4) : Char(url, i) = ":"
    \/ HostedPattern(url, "github.com")
    \/ HostedPattern(url, "gitlab.com")
    \/ HostedPattern(url, "bitbucket.org")

\* whether rest matches ([^\/]+?)(?:\.git)?\/?$ with a group of k characters
RepoGroup(rest, k) ==
    /\ ~Includes(SubSeq(rest, 1, k), "/")
    /\ SubSeq(rest, k + 1, Len(rest)) \in {"", "/", ".git", ".git/"}

\* extractRepoName with a greedy group, ([^\/]+) instead of ([^\/]+?)
extractRepoNameGreedy(url) ==
    LET rest(i) == SubSeq(url, i + 1, Len(url))
        starts == {i \in 1..Len(url) :
                     Char(url, i) = "/" /\ \E k \in 1..Len(rest(i)) : RepoGroup(rest(i), k)}
    IN  IF starts = {} THEN None
        ELSE LET i == CHOOSE x \in starts : \A y \in starts : x <= y
                 ks == {k \in 1..Len(rest(i)) : RepoGroup(rest(i), k)}
                 k == CHOOSE x \in ks : \A y \in ks : x >= y
             IN  Some(SubSeq(rest(i), 1, k))

\* extractRepoName(url): url.match(/\/([^\/]+?)(?:\.git)?\/?$/), the leftmost
\* match and in it the shortest group; null (None) without a match
extractRepoName(url) ==
    LET rest(i) == SubSeq(url, i + 1, Len(url))
        starts == {i \in 1..Len(url) :
                     Char(url, i) = "/" /\ \E k \in 1..Len(rest(i)) : RepoGroup(rest(i), k)}
    IN  IF starts = {} THEN None
        ELSE LET i == CHOOSE x \in starts : \A y \in starts : x <= y
                 ks == {k \in 1..Len(rest(i)) : RepoGroup(rest(i), k)}
                 k == CHOOSE x \in ks : \A y \in ks : x <= y
             IN  Some(SubSeq(rest(i), 1, k))

-----------------------------------------------------------------------------
(* The inputs the model draws from *)

\* main: extractRepoName(gitUrl) || 'repository'
DefaultRepoName(gitUrl) ==
    IF IsSome(extractRepoName(gitUrl)) THEN Val(extractRepoName(gitUrl)) ELSE "repository"

\* git URLs given on the command line
Urls == {"https://github.com/u/r.git", "https://github.com/u/.", "r", ""}

\* paths given to --set-config
SetConfigPaths == {"p", "/h2", "/x", "/h/../x"}

\* process.argv.slice(2)
Argvs ==
    {<< >>, <<"--help">>, <<"--version">>, <<"--config">>, <<"--reset-config">>,
     <<"--set-config">>}
    \cup {<<"--set-config", p>> : p \in SetConfigPaths}
    \cup {<<u>> : u \in Urls}

\* GIT_CLONE_PROJECTS_DIR: unset, set to the empty string, set to a path
EnvVals == {None, Some(""), Some("/")}

\* answers typed at a folder name prompt (besides accepting the default)
Names == {" n", "..", "", "a/b"}

\* answers typed at the first-run directory prompt (besides the default)
SetupInputs == {"", "/x"}

\* keys pressed at the post-clone prompt: one that opens (Enter; y does the
\* same), one that skips (q; n does the same), one the handler does not know
Keys == {"\r", "q", "x"}

\* the contents config.json can have: not JSON, JSON without projectsDir,
\* JSON with projectsDir
CorruptConfig == [valid |-> FALSE, projectsDir |-> None]
ConfigWith(d) == [valid |-> TRUE, projectsDir |-> d]

ConfigDir == PathJoin(<<Home, ".config", "git-clone">>)

CfgInits == {None, Some(CorruptConfig), Some(ConfigWith(None)), Some(ConfigWith(Some(""))),
             Some(ConfigWith(Some("/h/p")))}

\* the directory trees the machine can start with
BaseDirs == {"/", "/h"}
FsInits ==
    { [dirs |-> BaseDirs, files |-> {}],
      [dirs |-> BaseDirs \cup {"/h/p", "/h/p/.x"}, files |-> {"/h/p"}],
      [dirs |-> BaseDirs \cup {"/h/p", "/h/p/a", "/h/p/a/r", "/h/p/root"},
       files |-> {"/h/p/a/r"}] }

-----------------------------------------------------------------------------
(* Configuration store *)

\* loadConfig reading the config file before the environment variable
loadConfigFileFirst ==
    IF IsSome(cfgFile) /\ Val(cfgFile).valid /\ IsSome(Val(cfgFile).projectsDir)
       /\ Val(Val(cfgFile).projectsDir) # ""
    THEN Val(cfgFile).projectsDir
    ELSE IF IsSome(env) /\ Val(env) # "" THEN Some(Val(env))
    ELSE None

\* loadConfig(): the configured root, or null (None)
loadConfig ==
    IF IsSome(env) /\ Val(env) # "" THEN Some(Val(env))
    ELSE IF IsSome(cfgFile)
         THEN IF Val(cfgFile).valid /\ IsSome(Val(cfgFile).projectsDir)
                 /\ Val(Val(cfgFile).projectsDir) # ""
              THEN Val(cfgFile).projectsDir
              ELSE None
         ELSE None

\* loadConfig() logs its warning: the file is there and JSON.parse threw
loadConfigWarns ==
    ~(IsSome(env) /\ Val(env) # "") /\ IsSome(cfgFile) /\ ~Val(cfgFile).valid

\* the ways saveConfig can end when the directories are ds
SaveOutcomes(ds) ==
    {"ok", "writeFails"} \cup (IF ConfigDir \in ds THEN {} ELSE {"mkdirFails"})

\* saveConfig(projectsDir) on the directories ds, ending as outcome: creates
\* the config directory when missing and writes the file; true iff "ok"
saveConfig(projectsDir, ds, mk, outcome) ==
    /\ dirs' = IF outcome = "mkdirFails" THEN ds ELSE ds \cup Ancestors(ConfigDir)
    /\ made' = IF outcome = "mkdirFails" \/ ConfigDir \in ds THEN mk ELSE mk \cup {ConfigDir}
    /\ cfgFile' = IF outcome = "ok" THEN Some(ConfigWith(Some(projectsDir))) ELSE cfgFile

-----------------------------------------------------------------------------
(* Process *)

\* process.exit(code), or main() returning with nothing left to run
Exit(code) == pc' = "exited" /\ exitCode' = Some(code)

\* error(message): log and process.exit(1)
error(message) == log' = log \cup {message} /\ Exit(1)

locals == <<PROJECTS_DIR, existingFolders, defaultRepoName, action, parentLocation, parentPick,
            folderName, targetFolder, isExistingFolder, targetDir, clonedPath, pending>>
observed == <<prompts, made, gitCalls, keys, editorCalls, ovNeeded, ovYes>>
invocation == <<argv, env, cfgAtStart, runs, afterReset, external>>

Running == pc \notin {"idle", "exited", "hung"}

\* the user runs the tool
Start ==
    /\ pc \in {"idle", "exited"}
    /\ runs < MaxRuns
    /\ runs' = runs + 1
    /\ afterReset' = (pc = "exited" /\ argv = <<"--reset-config">> /\ exitCode = Some(0))
    /\ \E a \in Argvs, e \in EnvVals : argv' = a /\ env' = e
    /\ pc' = "main"
    /\ exitCode' = None
    /\ PROJECTS_DIR' = None
    /\ existingFolders' = << >>
    /\ defaultRepoName' = ""
    /\ action' = ""
    /\ parentLocation' = ""
    /\ parentPick' = None
    /\ folderName' = ""
    /\ targetFolder' = ""
    /\ isExistingFolder' = FALSE
    /\ targetDir' = ""
    /\ clonedPath' = None
    /\ pending' = ""
    /\ prompts' = {}
    /\ log' = {}
    /\ made' = {}
    /\ gitCalls' = << >>
    /\ keys' = << >>
    /\ editorCalls' = << >>
    /\ ovNeeded' = 0
    /\ ovYes' = 0
    /\ external' = 0
    /\ cfgAtStart' = cfgFile
    /\ UNCHANGED <<machineVars, validatorVars, extractVars>>

\* main: no argument, --help, -h
ShowHelp ==
    /\ pc = "main"
    /\ IF Len(argv) = 0 THEN TRUE ELSE argv[1] \in {"--help", "-h"}
    /\ log' = log \cup {"usage"}
    /\ Exit(0)
    /\ UNCHANGED <<machineVars, locals, observed, invocation, validatorVars, extractVars>>

\* main: --version, -v
ShowVersion ==
    /\ pc = "main"
    /\ Len(argv) > 0 /\ argv[1] \in {"--version", "-v"}
    /\ log' = log \cup {"version"}
    /\ Exit(0)
    /\ UNCHANGED <<machineVars, locals, observed, invocation, validatorVars, extractVars>>

\* main: --config, -c, and showConfig()
ShowConfig ==
    /\ pc = "main"
    /\ Len(argv) > 0 /\ argv[1] \in {"--config", "-c"}
    /\ log' = log \cup (IF loadConfigWarns THEN {"configWarning"} ELSE {})
                  \cup (IF IsSome(loadConfig) THEN {"currentConfig"} ELSE {"noConfig"})
                  \cup (IF IsSome(loadConfig) /\ IsSome(env) /\ Val(env) # ""
                        THEN {"usingEnv"} ELSE {})
    /\ Exit(0)
    /\ UNCHANGED <<machineVars, locals, observed, invocation, validatorVars, extractVars>>

\* setConfig: the containment test on the resolved path
WithinHome(resolved) == StartsWith(resolved, Home)

\* main: --set-config, and setConfig(newPath) up to its directory prompt
SetConfig ==
    /\ pc = "main"
    /\ Len(argv) > 0 /\ argv[1] = "--set-config"
    /\ IF Len(argv) < 2 \/ argv[2] = ""
       THEN /\ error("setConfigUsage")
            /\ UNCHANGED <<machineVars, locals, observed>>
       ELSE LET resolved == PathResolve(argv[2]) IN
            IF ~WithinHome(resolved)
            THEN /\ error("mustBeWithinHome")
                 /\ UNCHANGED <<machineVars, locals, observed>>
            ELSE IF ~Exists(resolved)
            THEN /\ pc' = "setConfigCreate"
                 /\ pending' = resolved
                 /\ prompts' = prompts \cup {"createDir"}
                 /\ UNCHANGED <<machineVars, exitCode, log, PROJECTS_DIR, existingFolders,
                                defaultRepoName, action, parentLocation, parentPick, folderName,
                                targetFolder, isExistingFolder, targetDir, clonedPath,
                                made, gitCalls, keys, editorCalls,
                                ovNeeded, ovYes>>
            ELSE \E outcome \in SaveOutcomes(dirs) :
                 /\ saveConfig(resolved, dirs, made, outcome)
                 /\ IF outcome = "ok"
                    THEN log' = log \cup {"configUpdated"} /\ Exit(0)
                    ELSE error("saveFailed")
                 /\ UNCHANGED <<files, locals, prompts, gitCalls, keys, editorCalls, ovNeeded, ovYes>>
    /\ UNCHANGED <<invocation, validatorVars, extractVars>>

\* setConfig: the answer to "Directory doesn't exist. Create it?" and the rest
SetConfigCreate ==
    /\ pc = "setConfigCreate"
    /\ \E create \in BOOLEAN :
       IF ~create
       THEN /\ error("cannotProceed")
            /\ UNCHANGED <<machineVars, made>>
       ELSE \E mkdirOk \in BOOLEAN :
            IF ~mkdirOk
            THEN /\ error("mkdirFailed")
                 /\ UNCHANGED <<machineVars, made>>
            ELSE \E outcome \in SaveOutcomes(dirs \cup Ancestors(pending)) :
                 /\ saveConfig(pending, dirs \cup Ancestors(pending), made \cup {pending}, outcome)
                 /\ IF outcome = "ok"
                    THEN log' = log \cup {"configUpdated"} /\ Exit(0)
                    ELSE error("saveFailed")
                 /\ UNCHANGED files
    /\ UNCHANGED <<locals, prompts, gitCalls, keys, editorCalls, ovNeeded, ovYes, invocation, validatorVars, extractVars>>

\* --reset-config deleting the file without testing that it exists
ResetConfigUnchecked ==
    /\ pc = "main"
    /\ Len(argv) > 0 /\ argv[1] = "--reset-config"
    /\ \E unlinkOk \in BOOLEAN :
       IF unlinkOk /\ IsSome(cfgFile)
       THEN /\ cfgFile' = None
            /\ log' = log \cup {"configReset", "runToSetUp"}
            /\ Exit(0)
       ELSE /\ error("resetFailed")
            /\ UNCHANGED cfgFile
    /\ UNCHANGED <<dirs, files, locals, observed, invocation, validatorVars, extractVars>>

\* main: --reset-config
ResetConfig ==
    /\ pc = "main"
    /\ Len(argv) > 0 /\ argv[1] = "--reset-config"
    /\ IF IsSome(cfgFile)
       THEN \E unlinkOk \in BOOLEAN :
            IF unlinkOk
            THEN /\ cfgFile' = None
                 /\ log' = log \cup {"configReset", "runToSetUp"}
                 /\ Exit(0)
            ELSE /\ error("resetFailed")
                 /\ UNCHANGED cfgFile
       ELSE /\ log' = log \cup {"runToSetUp"}
            /\ Exit(0)
            /\ UNCHANGED cfgFile
    /\ UNCHANGED <<dirs, files, locals, observed, invocation, validatorVars, extractVars>>

-----------------------------------------------------------------------------
(* The clone flow: configuration *)

selection == <<existingFolders, defaultRepoName, action, parentLocation, parentPick, folderName,
               targetFolder, isExistingFolder>>

IsCloneRun ==
    /\ Len(argv) > 0
    /\ argv[1] \notin {"--help", "-h", "--version", "-v", "--config", "-c",
                       "--set-config", "--reset-config"}

\* the load that removes a config file it cannot parse
LoadConfigRepairing ==
    /\ pc = "main"
    /\ IsCloneRun
    /\ \E installed \in BOOLEAN :
       IF ~installed
       THEN /\ error("gitNotInstalled")
            /\ UNCHANGED <<PROJECTS_DIR, prompts, cfgFile>>
       ELSE /\ PROJECTS_DIR' = loadConfig
            /\ log' = log \cup (IF loadConfigWarns THEN {"configWarning"} ELSE {})
            /\ cfgFile' = IF loadConfigWarns THEN None ELSE cfgFile
            /\ pc' = IF IsSome(loadConfig) THEN "checkRoot" ELSE "setup"
            /\ prompts' = IF IsSome(loadConfig) THEN prompts ELSE prompts \cup {"setupDir"}
            /\ UNCHANGED exitCode
    /\ UNCHANGED <<dirs, files, selection, targetDir, clonedPath, pending, made, gitCalls, keys,
                   editorCalls, ovNeeded, ovYes, invocation, validatorVars, extractVars>>

\* main: checkGitInstalled() and getProjectsDir()
LoadConfig ==
    /\ pc = "main"
    /\ IsCloneRun
    /\ \E installed \in BOOLEAN :
       IF ~installed
       THEN /\ error("gitNotInstalled")
            /\ UNCHANGED <<PROJECTS_DIR, prompts>>
       ELSE /\ PROJECTS_DIR' = loadConfig
            /\ log' = log \cup (IF loadConfigWarns THEN {"configWarning"} ELSE {})
            /\ pc' = IF IsSome(loadConfig) THEN "checkRoot" ELSE "setup"
            /\ prompts' = IF IsSome(loadConfig) THEN prompts ELSE prompts \cup {"setupDir"}
            /\ UNCHANGED exitCode
    /\ UNCHANGED <<machineVars, selection, targetDir, clonedPath, pending, made, gitCalls, keys, editorCalls,
                   ovNeeded, ovYes, invocation, validatorVars, extractVars>>

\* getDefaultProjectsDir() on macOS/Linux
getDefaultProjectsDir ==
    IF Exists(PathJoin(<<Home, "Developer">>))
    THEN PathJoin(<<Home, "Developer", "Projects">>)
    ELSE PathJoin(<<Home, "Projects">>)

\* setupConfig: the validate callback of the directory prompt
ValidSetupInput(input) ==
    /\ Trim(input) # ""
    /\ StartsWith(PathResolve(Trim(input)), Home)

\* setupConfig: the answer to the directory prompt, up to the next prompt
SetupConfig ==
    /\ pc = "setup"
    /\ \E input \in SetupInputs \cup {getDefaultProjectsDir} :
       /\ ValidSetupInput(input)
       /\ LET resolvedDir == PathResolve(Trim(input)) IN
          IF ~Exists(resolvedDir)
          THEN /\ pc' = "setupCreate"
               /\ pending' = resolvedDir
               /\ prompts' = prompts \cup {"createDir"}
               /\ UNCHANGED <<machineVars, PROJECTS_DIR, exitCode, log, made>>
          ELSE \E outcome \in SaveOutcomes(dirs) :
               /\ saveConfig(resolvedDir, dirs, made, outcome)
               /\ IF outcome = "ok"
                  THEN /\ PROJECTS_DIR' = Some(resolvedDir)
                       /\ log' = log \cup {"configSaved"}
                       /\ pc' = "checkRoot"
                       /\ UNCHANGED exitCode
                  ELSE /\ error("saveFailed")
                       /\ UNCHANGED PROJECTS_DIR
               /\ UNCHANGED <<files, pending, prompts>>
    /\ UNCHANGED <<selection, targetDir, clonedPath, gitCalls, keys, editorCalls, ovNeeded, ovYes,
                   invocation, validatorVars, extractVars>>

\* setupConfig: the answer to "Directory doesn't exist. Create it?" and the rest
SetupCreate ==
    /\ pc = "setupCreate"
    /\ \E create \in BOOLEAN :
       IF ~create
       THEN /\ error("cannotProceed")
            /\ UNCHANGED <<machineVars, made, PROJECTS_DIR>>
       ELSE \E mkdirOk \in BOOLEAN :
            IF ~mkdirOk
            THEN /\ error("mkdirFailed")
                 /\ UNCHANGED <<machineVars, made, PROJECTS_DIR>>
            ELSE \E outcome \in SaveOutcomes(dirs \cup Ancestors(pending)) :
                 /\ saveConfig(pending, dirs \cup Ancestors(pending), made \cup {pending}, outcome)
                 /\ IF outcome = "ok"
                    THEN /\ PROJECTS_DIR' = Some(pending)
                         /\ log' = log \cup {"configSaved"}
                         /\ pc' = "checkRoot"
                         /\ UNCHANGED exitCode
                    ELSE /\ error("saveFailed")
                         /\ UNCHANGED PROJECTS_DIR
                 /\ UNCHANGED files
    /\ UNCHANGED <<selection, targetDir, clonedPath, pending, prompts, gitCalls, keys, editorCalls, ovNeeded,
                   ovYes, invocation, validatorVars, extractVars>>

\* main: "Validate projects directory exists", up to its prompt
CheckRoot ==
    /\ pc = "checkRoot"
    /\ IF ~Exists(Val(PROJECTS_DIR))
       THEN pc' = "rootCreate" /\ prompts' = prompts \cup {"createDir"}
       ELSE pc' = "url" /\ UNCHANGED prompts
    /\ UNCHANGED <<machineVars, locals, exitCode, log, made, gitCalls, keys, editorCalls, ovNeeded, ovYes,
                   invocation, validatorVars, extractVars>>

\* main: the answer to "Projects directory doesn't exist. Create it?"
RootCreate ==
    /\ pc = "rootCreate"
    /\ \E create \in BOOLEAN :
       IF ~create
       THEN /\ error("cannotProceed")
            /\ UNCHANGED <<dirs, made>>
       ELSE \E mkdirOk \in BOOLEAN :
            IF ~mkdirOk
            THEN /\ error("mkdirFailed")
                 /\ UNCHANGED <<dirs, made>>
            ELSE /\ dirs' = dirs \cup Ancestors(PathResolve(Val(PROJECTS_DIR)))
                 /\ made' = made \cup {PathResolve(Val(PROJECTS_DIR))}
                 /\ log' = log \cup {"createdDirectory"}
                 /\ pc' = "url"
                 /\ UNCHANGED exitCode
    /\ UNCHANGED <<cfgFile, files, locals, prompts, gitCalls, keys, editorCalls, ovNeeded, ovYes,
                   invocation, validatorVars, extractVars>>

\* main: the git URL argument and validateGitUrl, up to the "proceed anyway" prompt
CheckUrl ==
    /\ pc = "url"
    /\ LET gitUrl == argv[1] IN
       IF gitUrl = ""
       THEN /\ error("usage")
            /\ UNCHANGED prompts
       ELSE IF ~validateGitUrl(gitUrl)
       THEN /\ log' = log \cup {"urlWarning"}
            /\ pc' = "proceed"
            /\ prompts' = prompts \cup {"proceed"}
            /\ UNCHANGED exitCode
       ELSE /\ pc' = "folders"
            /\ UNCHANGED <<exitCode, log, prompts>>
    /\ UNCHANGED <<machineVars, locals, made, gitCalls, keys, editorCalls, ovNeeded, ovYes, invocation,
                   validatorVars, extractVars>>

\* main: the answer to "Do you want to proceed anyway?"
Proceed ==
    /\ pc = "proceed"
    /\ \E proceed \in BOOLEAN :
       IF ~proceed THEN Exit(0) ELSE pc' = "folders" /\ UNCHANGED exitCode
    /\ UNCHANGED <<machineVars, locals, log, observed, invocation, validatorVars, extractVars>>

-----------------------------------------------------------------------------
(* The clone flow: folder selection *)

Root == Val(PROJECTS_DIR)

\* main: getExistingFolders(PROJECTS_DIR) and extractRepoName(gitUrl) || 'repository',
\* up to the first folder prompt
ListFolders ==
    /\ pc = "folders"
    /\ IF ~Exists(Root)
       THEN \E mkdirOk \in BOOLEAN :
            /\ dirs' = IF mkdirOk THEN dirs \cup Ancestors(PathResolve(Root)) ELSE dirs
            /\ made' = IF mkdirOk THEN made \cup {PathResolve(Root)} ELSE made
            /\ log' = IF mkdirOk THEN log ELSE log \cup {"listWarning"}
            /\ existingFolders' = << >>
       ELSE /\ existingFolders' = getExistingFolders(Root)
            /\ UNCHANGED <<dirs, made, log>>
    /\ defaultRepoName' = DefaultRepoName(argv[1])
    /\ pc' = IF Len(existingFolders') = 0 THEN "nameEmpty" ELSE "action"
    /\ prompts' = prompts \cup (IF Len(existingFolders') = 0 THEN {"folderName"} ELSE {"action"})
    /\ UNCHANGED <<cfgFile, files, PROJECTS_DIR, action, parentLocation, parentPick, folderName,
                   targetFolder, isExistingFolder, targetDir, clonedPath, pending, exitCode,
                   gitCalls, keys, editorCalls, ovNeeded, ovYes, invocation, validatorVars, extractVars>>

\* main: the validate callback of the folder name prompt of an empty root
ValidFolderName(input) ==
    /\ Trim(input) # ""
    /\ ~Includes(input, "/")
    /\ ~Includes(input, "\\")

\* main: the answer to the folder name prompt when there is no existing folder
NameInEmptyRoot ==
    /\ pc = "nameEmpty"
    /\ \E input \in Names \cup {defaultRepoName} :
       /\ ValidFolderName(input)
       /\ folderName' = input
       /\ targetFolder' = Trim(input)
    /\ pc' = "target"
    /\ UNCHANGED <<machineVars, PROJECTS_DIR, existingFolders, defaultRepoName, action,
                   parentLocation, parentPick, isExistingFolder, targetDir, clonedPath, pending,
                   exitCode, log, observed, invocation, validatorVars, extractVars>>

\* main: the answer to "Choose an option:"
ChooseAction ==
    /\ pc = "action"
    /\ \E a \in {"new", "existing"} :
       /\ action' = a
       /\ pc' = IF a = "existing" THEN "existing" ELSE "parent"
       /\ prompts' = prompts \cup (IF a = "existing" THEN {"existingFolder"} ELSE {"parentLocation"})
    /\ UNCHANGED <<machineVars, PROJECTS_DIR, existingFolders, defaultRepoName,
                   parentLocation, parentPick, folderName, targetFolder, isExistingFolder, targetDir,
                   clonedPath, pending, exitCode, log, made, gitCalls, keys, editorCalls, ovNeeded, ovYes,
                   invocation, validatorVars, extractVars>>

\* main: the answer to "Select an existing folder:"
ChooseExisting ==
    /\ pc = "existing"
    /\ \E f \in Range(existingFolders) : targetFolder' = f
    /\ isExistingFolder' = TRUE
    /\ pc' = "target"
    /\ UNCHANGED <<machineVars, PROJECTS_DIR, existingFolders, defaultRepoName, action,
                   parentLocation, parentPick, folderName, targetDir, clonedPath, pending, exitCode,
                   log, observed, invocation, validatorVars, extractVars>>

\* main: the values of the choices of "Where would you like to create the new folder?"
ParentChoices ==
    {[pick |-> <<"projectsRoot">>, value |-> "root"]}
    \cup {[pick |-> <<"folder", f>>, value |-> f] : f \in Range(existingFolders)}

\* main: the answer to "Where would you like to create the new folder?"
ChooseParent ==
    /\ pc = "parent"
    /\ \E choice \in ParentChoices :
       /\ parentLocation' = choice.value
       /\ parentPick' = choice.pick
    /\ pc' = "nameNew"
    /\ prompts' = prompts \cup {"folderName"}
    /\ UNCHANGED <<machineVars, PROJECTS_DIR, existingFolders, defaultRepoName, action,
                   folderName, targetFolder, isExistingFolder, targetDir, clonedPath,
                   pending, exitCode, log, made, gitCalls, keys, editorCalls, ovNeeded, ovYes, invocation,
                   validatorVars, extractVars>>

\* main: checkPath of the validate callback of the new folder name prompt
CheckPath(input) ==
    IF parentLocation = "root"
    THEN PathJoin(<<Root, Trim(input)>>)
    ELSE PathJoin(<<Root, parentLocation, Trim(input)>>)

\* main: the validate callback of the new folder name prompt
ValidNewFolderName(input) ==
    /\ Trim(input) # ""
    /\ ~Includes(input, "/")
    /\ ~Includes(input, "\\")
    /\ ~Exists(CheckPath(input))

\* main: the answer to the new folder name prompt
NameOfNewFolder ==
    /\ pc = "nameNew"
    /\ \E input \in Names \cup {defaultRepoName} :
       /\ ValidNewFolderName(input)
       /\ folderName' = input
       /\ IF parentLocation = "root"
          THEN /\ targetFolder' = Trim(input)
               /\ UNCHANGED isExistingFolder
          ELSE /\ targetFolder' = PathJoin(<<parentLocation, Trim(input)>>)
               /\ isExistingFolder' = TRUE
    /\ pc' = "target"
    /\ UNCHANGED <<machineVars, PROJECTS_DIR, existingFolders, defaultRepoName, action,
                   parentLocation, parentPick, targetDir, clonedPath, pending, exitCode, log,
                   observed, invocation, validatorVars, extractVars>>

-----------------------------------------------------------------------------
(* The clone flow: target, validation, clone *)

\* main: "Determine target directory based on the scenario": the targetDir of
\* each of the three branches
computeTargetDir ==
    IF isExistingFolder
    THEN IF Includes(targetFolder, "/")
         THEN PathJoin(<<Root, targetFolder>>)
         ELSE PathJoin(<<PathJoin(<<Root, targetFolder>>), defaultRepoName>>)
    ELSE PathJoin(<<Root, targetFolder>>)

\* the check counting only the plain files of the directory
hasFilesOnly(dir) == PathResolve(dir) \in files

\* main: "Check if folder already exists and has content":
\* fs.existsSync(dir) and fs.readdirSync(dir).length > 0
hasContent(dir) == Exists(dir) /\ NonEmpty(dir)

\* main: targetDir and the check "already exists and has content", up to its prompt
ComputeTarget ==
    /\ pc = "target"
    /\ targetDir' = computeTargetDir
    /\ IF hasContent(computeTargetDir)
       THEN /\ pc' = "overwrite"
            /\ prompts' = prompts \cup {"overwrite"}
       ELSE /\ pc' = "validate"
            /\ UNCHANGED prompts
    /\ ovNeeded' = ovNeeded + (IF Exists(computeTargetDir) /\ NonEmpty(computeTargetDir)
                               THEN 1 ELSE 0)
    /\ UNCHANGED <<machineVars, PROJECTS_DIR, selection, clonedPath, pending, exitCode, log,
                   made, gitCalls, keys, editorCalls, ovYes, invocation, validatorVars, extractVars>>

\* main: the answer to "already exists and is not empty. Continue anyway?"
Overwrite ==
    /\ pc = "overwrite"
    /\ \E overwrite \in BOOLEAN :
       IF ~overwrite
       THEN /\ log' = log \cup {"cancelled"}
            /\ Exit(0)
            /\ UNCHANGED ovYes
       ELSE /\ pc' = "validate"
            /\ ovYes' = ovYes + 1
            /\ UNCHANGED <<exitCode, log>>
    /\ UNCHANGED <<machineVars, locals, prompts, made, gitCalls, keys, editorCalls, ovNeeded, invocation,
                   validatorVars, extractVars>>

\* main: "Validate path is within PROJECTS_DIR" and the final check, up to its prompt
ValidateTarget ==
    /\ pc = "validate"
    /\ LET validatedPath == validatePathWithinProjectsDir(targetDir, Root) IN
       IF ~IsSome(validatedPath)
       THEN /\ error("outsideProjects")
            /\ UNCHANGED <<targetDir, prompts, ovNeeded>>
       ELSE /\ targetDir' = Val(validatedPath)
            /\ IF hasContent(Val(validatedPath))
               THEN /\ pc' = "finalOverwrite"
                    /\ prompts' = prompts \cup {"finalOverwrite"}
               ELSE /\ pc' = "clone"
                    /\ UNCHANGED prompts
            /\ ovNeeded' = ovNeeded + (IF Exists(Val(validatedPath)) /\ NonEmpty(Val(validatedPath))
                                       THEN 1 ELSE 0)
            /\ UNCHANGED <<exitCode, log>>
    /\ UNCHANGED <<machineVars, PROJECTS_DIR, selection, clonedPath, pending, made, gitCalls, keys, editorCalls,
                   ovYes, invocation, validatorVars, extractVars>>

\* main: the answer to the final "already exists and is not empty. Continue anyway?"
FinalOverwrite ==
    /\ pc = "finalOverwrite"
    /\ \E overwrite \in BOOLEAN :
       IF ~overwrite
       THEN /\ log' = log \cup {"cancelled"}
            /\ Exit(0)
            /\ UNCHANGED ovYes
       ELSE /\ pc' = "clone"
            /\ ovYes' = ovYes + 1
            /\ UNCHANGED <<exitCode, log>>
    /\ UNCHANGED <<machineVars, locals, prompts, made, gitCalls, keys, editorCalls, ovNeeded, invocation,
                   validatorVars, extractVars>>

\* the ways spawnSync('git', ['clone', url, targetDir]) can end
GitResults == {"status0", "statusNonzero", "spawnError"}

\* cloneRepository without the test of result.status
CloneSucceededUnlessSpawnError(result) == result # "spawnError"

\* cloneRepository: whether the call returns targetDir (else it calls error)
CloneSucceeded(result) == result = "status0"

\* cloneRepository(gitUrl, targetDir, PROJECTS_DIR) and "if (clonedPath)"
CloneRepository ==
    /\ pc = "clone"
    /\ LET parentDir == PathDirname(targetDir) IN
       \E mkdirOk \in BOOLEAN, result \in GitResults :
       IF ~Exists(parentDir) /\ ~mkdirOk
       THEN /\ error("cloneFailed")
            /\ UNCHANGED <<dirs, files, made, gitCalls, clonedPath, prompts>>
       ELSE /\ made' = IF Exists(parentDir) THEN made ELSE made \cup {parentDir}
            /\ gitCalls' = Append(gitCalls, [targetDir |-> targetDir, result |-> result])
            /\ dirs' = dirs \cup Ancestors(parentDir)
                            \cup (IF result = "status0" THEN {targetDir} ELSE {})
            /\ files' = files \cup (IF result = "status0" THEN {targetDir} ELSE {})
            /\ IF CloneSucceeded(result)
               THEN /\ log' = log \cup {"cloning", "cloned"}
                    /\ clonedPath' = Some(targetDir)
                    /\ pc' = "promptOpen"
                    /\ prompts' = prompts \cup {"openInCursor"}
                    /\ UNCHANGED exitCode
               ELSE /\ log' = log \cup {"cloning", "cloneFailed"}
                    /\ Exit(1)
                    /\ UNCHANGED <<clonedPath, prompts>>
    /\ UNCHANGED <<cfgFile, PROJECTS_DIR, selection, targetDir, pending, ovNeeded, ovYes,
                   keys, editorCalls, invocation, validatorVars, extractVars>>

\* promptOpenInCursor: onKeypress, registered with process.stdin.once, so it
\* runs for the first key only: a key it does not recognise resolves nothing
Keypress ==
    /\ pc = "promptOpen"
    /\ \E key \in Keys :
       /\ keys' = Append(keys, key)
       /\ pc' = IF key \in {"y", "\r", "\n"} THEN "open"
                ELSE IF key \in {"n", "q"} THEN "skip"
                ELSE "hung"
    /\ UNCHANGED <<machineVars, locals, exitCode, log, prompts, made, gitCalls, editorCalls,
                   ovNeeded, ovYes, invocation, validatorVars, extractVars>>

\* promptOpenInCursor: a key pressed after the listener of once() was
\* removed; keys are recorded up to the first one the handler would know
KeypressAfterOnce ==
    /\ pc = "hung"
    /\ Len(keys) < MaxKeys
    /\ \A i \in 1..Len(keys) : keys[i] \notin {"y", "\r", "\n", "n", "q"}
    /\ \E key \in Keys : keys' = Append(keys, key)
    /\ UNCHANGED <<machineVars, pc, locals, exitCode, log, prompts, made, gitCalls, editorCalls,
                   ovNeeded, ovYes, invocation, validatorVars, extractVars>>

\* the ways spawnSync of an editor command can end: the editor was started,
\* or the command could not be invoked (result.error is set, as for ENOENT)
EditorResults == {"started", "error"}

\* openInCursor: whether spawnSync throws, which is what its catch blocks
\* wait for; spawnSync returns a failure to invoke in result.error instead
SpawnSyncThrows(result) == FALSE

\* main: openInCursor(clonedPath), and main returns
OpenInCursor ==
    /\ pc = "open"
    /\ \E r1 \in EditorResults, r2 \in EditorResults :
       LET cursor == [command |-> "cursor", result |-> r1]
           code == [command |-> "code", result |-> r2]
       IN  IF ~SpawnSyncThrows(r1)
           THEN /\ editorCalls' = <<cursor>>
                /\ log' = log \cup {"openingInCursor"}
           ELSE IF ~SpawnSyncThrows(r2)
           THEN /\ editorCalls' = <<cursor, code>>
                /\ log' = log \cup {"openingInEditor"}
           ELSE /\ editorCalls' = <<cursor, code>>
                /\ log' = log \cup {"openManually"}
    /\ Exit(0)
    /\ UNCHANGED <<machineVars, locals, prompts, made, gitCalls, keys, ovNeeded, ovYes,
                   invocation, validatorVars, extractVars>>

\* main: "You can open it later", and main returns
SkipOpen ==
    /\ pc = "skip"
    /\ log' = log \cup {"openLater"}
    /\ Exit(0)
    /\ UNCHANGED <<machineVars, locals, observed, invocation, validatorVars, extractVars>>

\* another process creates the directory the tool is about to check, between
\* the name prompt and the "race condition protection" check
ExternalMkdir ==
    /\ pc \in {"target", "validate"}
    /\ external < MaxExternal
    /\ LET p == PathResolve(IF pc = "target" THEN computeTargetDir ELSE targetDir) IN
       /\ ~(p \in dirs /\ p \in files)
       /\ dirs' = dirs \cup Ancestors(p)
       /\ files' = files \cup {p}
    /\ external' = external + 1
    /\ UNCHANGED <<cfgFile, pc, locals, exitCode, log, observed, argv, env, cfgAtStart,
                   runs, afterReset, validatorVars, extractVars>>

-----------------------------------------------------------------------------
(* The specification of the tool *)

Init ==
    /\ cfgFile \in CfgInits
    /\ \E f \in FsInits :
          /\ dirs = f.dirs \cup (IF IsSome(cfgFile) THEN Ancestors(ConfigDir) ELSE {})
          /\ files = f.files
    /\ pc = "idle"
    /\ argv = << >>
    /\ env = None
    /\ PROJECTS_DIR = None
    /\ existingFolders = << >>
    /\ defaultRepoName = ""
    /\ action = ""
    /\ parentLocation = ""
    /\ parentPick = None
    /\ folderName = ""
    /\ targetFolder = ""
    /\ isExistingFolder = FALSE
    /\ targetDir = ""
    /\ clonedPath = None
    /\ pending = ""
    /\ exitCode = None
    /\ prompts = {}
    /\ log = {}
    /\ made = {}
    /\ gitCalls = << >>
    /\ keys = << >>
    /\ editorCalls = << >>
    /\ xPc = "off"
    /\ xPrefix = ""
    /\ xName = ""
    /\ xResult = << >>
    /\ ovNeeded = 0
    /\ ovYes = 0
    /\ cfgAtStart = cfgFile
    /\ runs = 0
    /\ afterReset = FALSE
    /\ external = 0
    /\ vPc = "off"
    /\ vTarget = ""
    /\ vRoot = ""
    /\ vResult = None

Next ==
    \/ Start
    \/ ShowHelp
    \/ ShowVersion
    \/ ShowConfig
    \/ SetConfig
    \/ SetConfigCreate
    \/ ResetConfig
    \/ LoadConfig
    \/ SetupConfig
    \/ SetupCreate
    \/ CheckRoot
    \/ RootCreate
    \/ CheckUrl
    \/ Proceed
    \/ ListFolders
    \/ NameInEmptyRoot
    \/ ChooseAction
    \/ ChooseExisting
    \/ ChooseParent
    \/ NameOfNewFolder
    \/ ComputeTarget
    \/ Overwrite
    \/ ValidateTarget
    \/ FinalOverwrite
    \/ CloneRepository
    \/ Keypress
    \/ KeypressAfterOnce
    \/ OpenInCursor
    \/ SkipOpen
    \/ ExternalMkdir

Spec == Init /\ [][Next]_vars

-----------------------------------------------------------------------------
(* The configuration commands, run one after the other *)

ConfigArgvs ==
    {<< >>, <<"--help">>, <<"--version">>, <<"--config">>, <<"--reset-config">>,
     <<"--set-config">>}
    \cup {<<"--set-config", p>> : p \in SetConfigPaths}

\* the user runs a configuration command
StartConfig ==
    /\ pc \in {"idle", "exited"}
    /\ runs < MaxConfigRuns
    /\ runs' = runs + 1
    /\ afterReset' = (pc = "exited" /\ argv = <<"--reset-config">> /\ exitCode = Some(0))
    /\ \E a \in ConfigArgvs, e \in EnvVals : argv' = a /\ env' = e
    /\ pc' = "main"
    /\ exitCode' = None
    /\ prompts' = {}
    /\ log' = {}
    /\ made' = {}
    /\ pending' = ""
    /\ cfgAtStart' = cfgFile
    /\ UNCHANGED <<machineVars, PROJECTS_DIR, selection, targetDir, clonedPath, gitCalls, keys, editorCalls,
                   ovNeeded, ovYes, external, validatorVars, extractVars>>

NextConfig ==
    \/ StartConfig
    \/ ShowHelp
    \/ ShowVersion
    \/ ShowConfig
    \/ SetConfig
    \/ SetConfigCreate
    \/ ResetConfig

SpecConfig == Init /\ [][NextConfig]_vars

-----------------------------------------------------------------------------
(* The path validator on arbitrary paths *)

\* the strings of at most n characters over "/", "h", "."
RECURSIVE PathStrings(_)
PathStrings(n) ==
    IF n = 0 THEN {""}
    ELSE PathStrings(n - 1) \cup {s \o c : s \in PathStrings(n - 1), c \in {"/", "h", "."}}

InitValidate ==
    /\ vPc = "call"
    /\ vTarget \in PathStrings(MaxPathLen)
    /\ vRoot \in PathStrings(MaxRootLen) \ {""}
    /\ vResult = None
    /\ cfgFile = None
    /\ dirs = BaseDirs
    /\ files = {}
    /\ pc = "idle"
    /\ argv = << >>
    /\ env = None
    /\ PROJECTS_DIR = None
    /\ existingFolders = << >>
    /\ defaultRepoName = ""
    /\ action = ""
    /\ parentLocation = ""
    /\ parentPick = None
    /\ folderName = ""
    /\ targetFolder = ""
    /\ isExistingFolder = FALSE
    /\ targetDir = ""
    /\ clonedPath = None
    /\ pending = ""
    /\ exitCode = None
    /\ prompts = {}
    /\ log = {}
    /\ made = {}
    /\ gitCalls = << >>
    /\ keys = << >>
    /\ editorCalls = << >>
    /\ xPc = "off"
    /\ xPrefix = ""
    /\ xName = ""
    /\ xResult = << >>
    /\ ovNeeded = 0
    /\ ovYes = 0
    /\ cfgAtStart = None
    /\ runs = 0
    /\ afterReset = FALSE
    /\ external = 0

\* a call of validatePathWithinProjectsDir(vTarget, vRoot)
Validate ==
    /\ vPc = "call"
    /\ vResult' = validatePathWithinProjectsDir(vTarget, vRoot)
    /\ vPc' = "return"
    /\ UNCHANGED <<vTarget, vRoot, machineVars, runVars, extractVars>>

NextValidate == Validate

SpecValidate == InitValidate /\ [][NextValidate]_vars

-----------------------------------------------------------------------------
(* extractRepoName on arbitrary URLs *)

\* what comes before the last path segment of a URL
Prefixes == {"https://h.io/u", "git@h.io:u"}

\* the strings of at most n characters over ".", "g", "i", "t"
RECURSIVE NameStrings(_)
NameStrings(n) ==
    IF n = 0 THEN {""}
    ELSE NameStrings(n - 1)
         \cup {s \o c : s \in NameStrings(n - 1), c \in {".", "g", "i", "t"}}

\* the URL <prefix>/<name><suffix>, or <name><suffix> without a prefix
UrlOf(suffix) ==
    IF IsSome(xPrefix) THEN Val(xPrefix) \o "/" \o xName \o suffix ELSE xName \o suffix

InitExtract ==
    /\ xPc = "call"
    /\ xPrefix \in {None} \cup {Some(p) : p \in Prefixes}
    /\ xName \in NameStrings(MaxNameLen) \ {""}
    /\ xResult = << >>
    /\ vPc = "off"
    /\ vTarget = ""
    /\ vRoot = ""
    /\ vResult = None
    /\ cfgFile = None
    /\ dirs = BaseDirs
    /\ files = {}
    /\ pc = "idle"
    /\ argv = << >>
    /\ env = None
    /\ PROJECTS_DIR = None
    /\ existingFolders = << >>
    /\ defaultRepoName = ""
    /\ action = ""
    /\ parentLocation = ""
    /\ parentPick = None
    /\ folderName = ""
    /\ targetFolder = ""
    /\ isExistingFolder = FALSE
    /\ targetDir = ""
    /\ clonedPath = None
    /\ pending = ""
    /\ exitCode = None
    /\ prompts = {}
    /\ log = {}
    /\ made = {}
    /\ gitCalls = << >>
    /\ keys = << >>
    /\ editorCalls = << >>
    /\ ovNeeded = 0
    /\ ovYes = 0
    /\ cfgAtStart = None
    /\ runs = 0
    /\ afterReset = FALSE
    /\ external = 0

\* extractRepoName, and the name main uses, for the URL as it is, with
\* ".git", with "/" and with ".git/"
Extract ==
    /\ xPc = "call"
    /\ xResult' = [suffix \in {"", ".git", "/", ".git/"} |->
                      [extracted |-> extractRepoName(UrlOf(suffix)),
                       used |-> DefaultRepoName(UrlOf(suffix))]]
    /\ xPc' = "return"
    /\ UNCHANGED <<xPrefix, xName, machineVars, runVars, validatorVars>>

NextExtract == Extract

SpecExtract == InitExtract /\ [][NextExtract]_vars

-----------------------------------------------------------------------------
(* Claims *)

\* the segments of an absolute normalised path: << >> for "/"
PathSegs(p) == NormalizeSegs(Segments(p), << >>, FALSE)

\* p is r or a descendant of r (both absolute and normalised), segment by segment
IsWithin(p, r) ==
    /\ Len(PathSegs(r)) <= Len(PathSegs(p))
    /\ SubSeq(PathSegs(p), 1, Len(PathSegs(r))) = PathSegs(r)

\* C1: the validator returns the resolved target exactly when the resolved
\* target is the resolved root or a descendant of it, and false otherwise,
\* for every root.
C1_AcceptsExactlyDescendants ==
    vPc = "return" =>
        vResult = (IF IsWithin(PathResolve(vTarget), PathResolve(vRoot))
                   THEN Some(PathResolve(vTarget)) ELSE None)

\* the invocation is a clone run that has computed a target
HasTarget == IsSome(PROJECTS_DIR) /\ targetDir # ""

\* the computed target resolves outside the projects root
TargetOutside == HasTarget /\ ~IsWithin(PathResolve(targetDir), PathResolve(Root))

\* cloneRepository is called, or was called, with targetDir
CloneEntered == pc \in {"clone", "promptOpen", "open", "skip", "hung"} \/ Len(gitCalls) > 0

\* the directories the tool creates before it has a target: the projects
\* root and the configuration directory
MadeForSetup == Ancestors(PathResolve(Root)) \cup {ConfigDir}

\* C2 as stated: cloneRepository (parent directory creation, git clone) only
\* gets a target inside the projects root; when the computed target resolves
\* outside the root the process exits with code 1 before cloneRepository and
\* nothing is created for the target.
C2_OutsideExitsWithOne ==
    /\ (HasTarget /\ CloneEntered) => IsWithin(PathResolve(targetDir), PathResolve(Root))
    /\ \A i \in 1..Len(gitCalls) :
          IsWithin(PathResolve(gitCalls[i].targetDir), PathResolve(Root))
    /\ TargetOutside =>
          /\ ~CloneEntered
          /\ made \subseteq MadeForSetup
          /\ pc = "exited" => exitCode = Some(1)

\* C2 amended: as above, but a run whose target resolves outside the root
\* ends either with code 1 at the containment check or with code 0 because
\* the user declined the overwrite confirmation shown before that check.
C2_OutsideNeverCloned ==
    /\ (HasTarget /\ CloneEntered) => IsWithin(PathResolve(targetDir), PathResolve(Root))
    /\ \A i \in 1..Len(gitCalls) :
          IsWithin(PathResolve(gitCalls[i].targetDir), PathResolve(Root))
    /\ TargetOutside =>
          /\ ~CloneEntered
          /\ made \subseteq MadeForSetup
          /\ pc = "exited" =>
                \/ exitCode = Some(1) /\ "outsideProjects" \in log
                \/ exitCode = Some(0) /\ "cancelled" \in log /\ ovYes = 0

\* C2 witness: a target outside the root was rejected by the containment check
C2_Witness ==
    TargetOutside /\ pc = "exited" /\ exitCode = Some(1) /\ "outsideProjects" \in log

\* C3: with a non-empty folder list and "use existing" folder F, the target
\* handed to the clone step is <root>/F/<repoName> and never <root>/F itself.
C3_ExistingTargetIsRepoSubfolder ==
    (pc = "clone" /\ action = "existing") =>
        /\ targetDir = PathResolve(Root \o "/" \o targetFolder \o "/" \o defaultRepoName)
        /\ targetDir # PathResolve(Root \o "/" \o targetFolder)

\* the invocation is --set-config with a path that resolves to neither the
\* home directory nor a descendant of it
SetConfigOutsideHome ==
    /\ pc # "idle"
    /\ Len(argv) = 2
    /\ argv[1] = "--set-config"
    /\ ~IsWithin(PathResolve(argv[2]), Home)

\* C4: --set-config with a path outside the home directory reports the
\* validation error, exits with code 1 and leaves the config file and the
\* directories as they were.
C4_OutsideHomeRejected ==
    SetConfigOutsideHome =>
        /\ pc \in {"main", "exited"}
        /\ cfgFile = cfgAtStart
        /\ made = {}
        /\ pc = "exited" => exitCode = Some(1) /\ "mustBeWithinHome" \in log

\* C5: a git clone that ends with a nonzero status or cannot be spawned makes
\* the process exit with code 1 after reporting the failure, without the
\* editor prompt; the editor prompt is only reached after a status 0.
C5_FailedCloneStopsFlow ==
    /\ \A i \in 1..Len(gitCalls) :
          gitCalls[i].result # "status0" =>
              /\ pc = "exited"
              /\ exitCode = Some(1)
              /\ "cloneFailed" \in log
              /\ "openInCursor" \notin prompts
              /\ clonedPath = None
    /\ ("openInCursor" \in prompts \/ pc \in {"promptOpen", "open", "skip", "hung"}) =>
          /\ Len(gitCalls) = 1
          /\ gitCalls[1].result = "status0"

\* C5 witness: git ended with a nonzero status
C5_Witness ==
    Len(gitCalls) = 1 /\ gitCalls[1].result = "statusNonzero" /\ pc = "exited"

\* C6: in every branch, git clone is invoked only after the user has said
\* yes to every overwrite confirmation a check of an existing non-empty
\* target calls for; a "no" ends the process with code 0, without git and
\* without a directory created for the target.
C6_CloneOnlyAfterConfirmation ==
    /\ ovYes <= ovNeeded
    /\ CloneEntered => ovYes = ovNeeded
    /\ "cancelled" \in log =>
          /\ pc = "exited"
          /\ exitCode = Some(0)
          /\ ~CloneEntered
          /\ made \subseteq MadeForSetup

\* C6 witness: both checks found the target non-empty, the user confirmed
\* twice and git was invoked
C6_Witness == Len(gitCalls) = 1 /\ ovNeeded = 2 /\ ovYes = 2

\* the config file the invocation started with holds a projectsDir field
FileHasProjectsDir ==
    IsSome(cfgAtStart) /\ Val(cfgAtStart).valid /\ IsSome(Val(cfgAtStart).projectsDir)

\* the clone flow has called loadConfig
ConfigLoaded == IsCloneRun /\ pc \notin {"idle", "main"} /\ "gitNotInstalled" \notin log

\* C7 as stated: the environment variable, when set, wins whatever the file
\* holds; else the projectsDir of a readable file; else null, and only null
\* starts the first-run setup.
C7_PrecedenceWhenSet ==
    LET expected == IF IsSome(env) THEN env
                    ELSE IF FileHasProjectsDir THEN Val(cfgAtStart).projectsDir
                    ELSE None
    IN  ConfigLoaded =>
            /\ ("setupDir" \in prompts) = (expected = None)
            /\ "setupDir" \notin prompts => PROJECTS_DIR = expected

\* C7 amended: the environment variable wins when it is set to a non-empty
\* value; else the non-empty projectsDir of a readable file is returned;
\* else (an empty value counts as none) null, and only null starts the
\* first-run setup.
C7_PrecedenceWhenNonEmpty ==
    LET expected == IF IsSome(env) /\ Val(env) # "" THEN env
                    ELSE IF FileHasProjectsDir /\ Val(Val(cfgAtStart).projectsDir) # ""
                         THEN Val(cfgAtStart).projectsDir
                    ELSE None
    IN  ConfigLoaded =>
            /\ ("setupDir" \in prompts) = (expected = None)
            /\ "setupDir" \notin prompts => PROJECTS_DIR = expected

\* C7 witness: the environment variable overrides a config file that names
\* another directory
C7_Witness ==
    /\ pc = "checkRoot"
    /\ IsSome(env) /\ Val(env) # ""
    /\ FileHasProjectsDir /\ Val(cfgAtStart).projectsDir # env
    /\ PROJECTS_DIR = env

\* the immediate subdirectories of root whose name does not start with "."
VisibleSubdirs(root) ==
    {d \in dirs : /\ d # PathResolve(root)
                  /\ PathDirname(d) = PathResolve(root)
                  /\ Char(PathBasename(d), 1) # "."}

\* C8: when the projects root has no non-hidden immediate subdirectory the
\* flow shows neither the create/use-existing choice nor a folder select,
\* only the name input, and the target is <root>/<name>.
C8_EmptyRootAsksOnlyName ==
    /\ pc \in {"nameEmpty", "action"} => ((pc = "nameEmpty") = (VisibleSubdirs(Root) = {}))
    /\ (prompts \cap {"folderName", "action"} # {} /\ Len(existingFolders) = 0) =>
          /\ prompts \cap {"action", "existingFolder", "parentLocation"} = {}
          /\ "folderName" \in prompts
          /\ pc = "clone" => targetDir = PathResolve(Root \o "/" \o targetFolder)

\* C8 witness: a clone into an empty root is about to start
C8_Witness ==
    /\ pc = "clone"
    /\ Len(existingFolders) = 0
    /\ targetDir = "/h/p/n"

\* the invocation was --reset-config and has ended
ResetRunEnded == pc = "exited" /\ argv = <<"--reset-config">>

\* C9 as stated: --reset-config always exits 0 after printing the guidance,
\* and leaves no config file, whether or not there was one.
C9_ResetAlwaysSucceeds ==
    ResetRunEnded =>
        /\ exitCode = Some(0)
        /\ "runToSetUp" \in log
        /\ cfgFile = None

\* C9 amended: without a config file --reset-config prints the guidance and
\* exits 0; with one it deletes it and exits 0, unless the deletion fails:
\* then it reports that, exits 1 and the file stays.  A run that follows a
\* run that exited 0 finds no file and behaves like the no-file case.
C9_ResetIdempotent ==
    ResetRunEnded =>
        /\ cfgAtStart = None =>
              exitCode = Some(0) /\ log = {"runToSetUp"} /\ cfgFile = None
        /\ cfgAtStart # None =>
              \/ exitCode = Some(0) /\ log = {"configReset", "runToSetUp"} /\ cfgFile = None
              \/ exitCode = Some(1) /\ log = {"resetFailed"} /\ cfgFile = cfgAtStart
        /\ afterReset => cfgAtStart = None

\* C9 witness: a third consecutive --reset-config has ended
C9_Witness == ResetRunEnded /\ afterReset /\ runs = 3 /\ exitCode = Some(0)

\* C10: in the "create new" branch the target is <root>/<name> when the
\* projects root is picked as parent and <root>/<parent>/<name> when the
\* existing folder <parent> is picked, whatever it is called; the name is
\* non-empty, has no separator and did not exist under the parent.
C10_NewFolderTarget ==
    LET name == Trim(folderName)
        parentPath == IF parentPick = <<"projectsRoot">> THEN Root
                      ELSE Root \o "/" \o parentPick[2]
    IN  /\ (pc = "clone" /\ action = "new") => targetDir = PathResolve(parentPath \o "/" \o name)
        /\ (pc = "target" /\ action = "new") =>
              /\ name # ""
              /\ ~Includes(folderName, "/")
              /\ external = 0 => ~Exists(parentPath \o "/" \o name)

\* the keys onKeypress acts on
RecognisedKeys == {"\r", "\n", "y", "n", "q"}

\* the first recognised key of the keys pressed (there is one)
FirstRecognisedKey ==
    keys[CHOOSE i \in 1..Len(keys) :
            keys[i] \in RecognisedKeys /\ \A j \in 1..(i - 1) : keys[j] \notin RecognisedKeys]

\* C11: openInCursor tries the primary editor command; when that cannot be
\* invoked it tries exactly one fallback command; when neither can be invoked
\* it prints the manual-open guidance; the process never exits nonzero.
C11_EditorFallback ==
    Len(editorCalls) > 0 =>
        /\ editorCalls[1].command = "cursor"
        /\ editorCalls[1].result = "started" => Len(editorCalls) = 1
        /\ editorCalls[1].result = "error" =>
              /\ Len(editorCalls) = 2
              /\ editorCalls[2].command = "code"
              /\ editorCalls[2].result = "error" => "openManually" \in log
        /\ exitCode = Some(0)

\* C14: once the keys pressed at the post-clone prompt contain Enter, y, n
\* or q, possibly after other keys, the prompt has resolved: with true (the
\* editor is opened) if the first of them is Enter or y, with false if it is
\* n or q.
C14_PromptResolves ==
    (\E i \in 1..Len(keys) : keys[i] \in RecognisedKeys) =>
        /\ pc \in {"open", "skip", "exited"}
        /\ FirstRecognisedKey \in {"\r", "\n", "y"} => (pc = "open" \/ Len(editorCalls) > 0)
        /\ FirstRecognisedKey \in {"n", "q"} => (pc = "skip" \/ "openLater" \in log)

\* the four forms of a URL
UrlForms == {"", ".git", "/", ".git/"}

\* C12 as stated: for every URL <prefix>/<name>, the URL as it is, with
\* ".git", with "/" and with ".git/" all yield <name>; when nothing can be
\* extracted the clone flow uses "repository".
C12_SameNameForEveryName ==
    xPc = "return" =>
        /\ IsSome(xPrefix) => \A f \in UrlForms : xResult[f].extracted = Some(xName)
        /\ \A f \in UrlForms :
              xResult[f].used = (IF IsSome(xResult[f].extracted)
                                 THEN Val(xResult[f].extracted) ELSE "repository")

\* C12 amended: the four forms all yield <name> for every name that does not
\* itself end in ".git"; a longer name that ends in ".git" loses that suffix
\* in the forms without an added ".git" and is kept in the forms with it;
\* without a "/" before the name nothing is extracted; when nothing is
\* extracted the clone flow uses "repository".
C12_SameNameForCleanNames ==
    LET suffixed == Len(xName) > 4 /\ EndsWith(xName, ".git")
        stripped == IF suffixed THEN SubSeq(xName, 1, Len(xName) - 4) ELSE xName
    IN  xPc = "return" =>
            /\ IsSome(xPrefix) =>
                  /\ xResult[""].extracted = Some(stripped)
                  /\ xResult["/"].extracted = Some(stripped)
                  /\ xResult[".git"].extracted = Some(xName)
                  /\ xResult[".git/"].extracted = Some(xName)
            /\ ~IsSome(xPrefix) => \A f \in UrlForms : xResult[f].extracted = None
            /\ \A f \in UrlForms :
                  xResult[f].used = (IF IsSome(xResult[f].extracted)
                                     THEN Val(xResult[f].extracted) ELSE "repository")

\* C12 witness: the four forms of https://h.io/u/g.t gave "g.t"
C12_Witness ==
    /\ xPc = "return"
    /\ xPrefix = Some("https://h.io/u")
    /\ xName = "g.t"
    /\ \A f \in UrlForms : xResult[f].extracted = Some("g.t")

\* the effective root the invocation started with: the non-empty environment
\* variable, else the non-empty projectsDir of a readable config file
RootAtStart ==
    IF IsSome(env) /\ Val(env) # "" THEN env
    ELSE IF FileHasProjectsDir /\ Val(Val(cfgAtStart).projectsDir) # ""
         THEN Val(cfgAtStart).projectsDir
    ELSE None

\* C13: the config file is written only by first-run setup, which runs only
\* when no effective root resolves, and by --set-config, and deleted only by
\* --reset-config; a clone run that starts with an effective root, --config,
\* --version and --help leave it as it was up to the exit.
C13_ConfigChangedOnlyOnRequest ==
    (pc # "idle" /\ Len(argv) > 0) =>
        /\ cfgFile # cfgAtStart =>
              \/ /\ Len(argv) = 2 /\ argv[1] = "--set-config"
                 /\ IsSome(cfgFile)
                 /\ "configUpdated" \in log
              \/ argv = <<"--reset-config">> /\ cfgFile = None
              \/ /\ IsCloneRun
                 /\ RootAtStart = None
                 /\ "setupDir" \in prompts
                 /\ IsSome(cfgFile)
                 /\ "configSaved" \in log
        /\ "setupDir" \in prompts => IsCloneRun /\ RootAtStart = None

\* C13 witness: a clone run that started with a configured root ended on a
\* failed clone and left the config file as it was
C13_Witness ==
    /\ pc = "exited"
    /\ IsCloneRun
    /\ "cloneFailed" \in log
    /\ IsSome(cfgAtStart)
    /\ RootAtStart # None
    /\ cfgFile = cfgAtStart

=============================================================================
